---- MODULE Spec2Model ----
(***************************************************************************)
(* Open World Drive (cantsixsix/corrida): the frame loop `animate`, the    *)
(* world builder `buildWorld`, the traffic system (createNPCs, updateNPCs, *)
(* checkNPCCollision) and the night pursuer (createMonster, updateMonster).*)
(*                                                                         *)
(* JavaScript numbers are modelled in fixed point:                         *)
(*   positions and lengths   1/100 world unit      (POS)                   *)
(*   speed                   1/100000 unit/frame   (SPD)                   *)
(*   normalised step dt      1/100                 (DTU)                   *)
(*   real time (sec)         1/6000 second, so that dt = min(sec*60, 3)    *)
(*                           is min(ticks, 300) in DTU                     *)
(*   angles                  1/10000 radian        (ANG)                   *)
(*   sin / cos               1/1000                (TRIG)                  *)
(* Products are divided back with truncation toward zero (Div).            *)
(***************************************************************************)
EXTENDS Integers, Sequences, FiniteSets, TLC

VARIABLES
    speed,      \* st.speed                                  (SPD)
    angle,      \* st.angle                                  (ANG)
    px, pz,     \* car.position.x / car.position.z           (POS)
    lean,       \* car.rotation.z                            (1/100000 rad)
    touch,      \* touchRef.current  {gas, brake, left, right}
    fr,         \* what the last frame computed (its locals: dt, intents,
                \* candidate position, collided, ...)
    frames,     \* number of frames run so far
    tlClock,    \* tlClock, seconds accumulated              (ticks)
    tl,         \* trafficLightMats.{red,yellow,green}.emissiveIntensity (1/100)
    npcs,       \* the npcs array
    buildings, trees, lamps,   \* collision arrays of buildWorld
    bw,         \* position of buildWorld in its placement loops
    scene,      \* what buildWorld has collected (C, buildingGeos, leafGeos) and
                \* the number of meshes it has added to the scene
    nightMode,  \* nightRef.current
    monster,    \* the monster object of createMonster
    mcall,      \* what the last updateMonster call did and returned
    hit,        \* orchestrator's antagonist-hit bookkeeping
    legacy      \* the legacy single-file App.jsx: st.speed, st.angle,
                \* car.position, car.rotation.z and its touch flags tA, tB, tL, tR

vars == << speed, angle, px, pz, lean, touch, fr, frames, tlClock, tl, npcs,
           buildings, trees, lamps, bw, scene, nightMode, monster, mcall, hit,
           legacy >>

playerVars  == << speed, angle, px, pz, lean, fr, frames >>
signalVars  == << tlClock, tl >>
worldVars   == << buildings, trees, lamps, bw, scene >>
monsterVars == << nightMode, monster, mcall >>

----------------------------------------------------------------------------
(* Units *)
POS  == 10^2
SPD  == 10^5
DTU  == 10^2
ANG  == 10^4
TRIG == 10^3
TICKS_PER_SEC == 6 * 10^3

(* Bounds of the model *)
MaxFrames       == 2     \* frames per behaviour in the driving specification
MaxSignalFrames == 7     \* frames per behaviour in the signal specification
MaxNPCSteps     == 26    \* updateNPCs steps in the traffic specification
MaxNPC          == 2     \* traffic agents created (of NPC_COUNT)
MaxAttempts     == 1     \* placement attempts per category (of BUILDING_COUNT / TREE_COUNT)
MaxMonsterCalls == 4     \* updateMonster calls per behaviour
MaxHitFrames    == 5     \* frames per behaviour in the hit-penalty specification
MaxCoastFrames  == 11    \* frames per behaviour in the coasting specification
MaxAccelFrames  == 61    \* frames per behaviour in the acceleration specification
MaxOverlapFrames == 2    \* frames per behaviour in the overlap specification
MaxTouchFrames  == 2     \* frames per behaviour in the touch specification
MaxLegacyFrames == 3     \* frames per behaviour in the legacy touch specification
MaxPhaseFrames  == 12    \* frames per behaviour in the phase-order specification
MaxLockFrames   == 3     \* frames per behaviour in the lock-step specification
MaxSplitFrames  == 2     \* frames per behaviour in the frame-split specification
MaxChaseCalls   == 218   \* updateMonster calls per behaviour in the chase specification

----------------------------------------------------------------------------
(* Arithmetic helpers *)
Abs(a) == IF a < 0 THEN -a ELSE a
Min(a, b) == IF a < b THEN a ELSE b
Max(a, b) == IF a > b THEN a ELSE b
Div(a, b) == IF a >= 0 THEN a \div b ELSE -((-a) \div b)

RECURSIVE SqrtIter(_, _, _)
SqrtIter(n, lo, hi) ==
    IF lo >= hi THEN lo
    ELSE LET mid == (lo + hi + 1) \div 2
         IN  IF mid * mid <= n THEN SqrtIter(n, mid, hi) ELSE SqrtIter(n, lo, mid - 1)
Sqrt(n) == SqrtIter(n, 0, 46340)

(* Math.sin / Math.cos: Bhaskara's rational approximation on a half wave *)
PI_ANG == 31416
SinHalf(x) ==
    LET x1 == x \div 10
        p  == x1 * (3142 - x1)
    IN  (500 * p) \div ((49360820 - 4 * p) \div 32)
Sin(a) ==
    LET m == a % (2 * PI_ANG)
    IN  IF m <= PI_ANG THEN SinHalf(m) ELSE -SinHalf(m - PI_ANG)
Cos(a) == Sin(a + PI_ANG \div 2)

----------------------------------------------------------------------------
(* constants.js *)
WORLD_SIZE      == 150000
ROAD_WIDTH      == 1400
CAR_ACCEL       == 3500
CAR_BRAKE       == 3000
CAR_FRICTION    == 800
CAR_MAX_SPEED   == 120000
CAR_REVERSE_MAX == -40000
STEER_SPEED     == 280
BUILDING_COUNT  == 400
TREE_COUNT      == 160
NPC_COUNT       == 25
WORLD_BOUND     == (WORLD_SIZE * 45) \div 100
MONSTER_SPEED      == 90
MONSTER_SPAWN_DIST == 20000
MONSTER_HIT_DIST   == 600

RoadL == (WORLD_SIZE * 85) \div 100
RoadM == (WORLD_SIZE * 6) \div 10
RoadS == 28000

Road(x, z, w, d) == [x |-> x, z |-> z, w |-> w, d |-> d]

ROAD_DEFS ==
    LET W == ROAD_WIDTH
        L == RoadL
        M == RoadM
        S == RoadS
    IN << Road(0, 0, W, L), Road(0, 0, L, W),
          Road(20000, 0, W, L), Road(-20000, 0, W, L),
          Road(40000, 0, W, M), Road(-40000, 0, W, M),
          Road(0, 20000, L, W), Road(0, -20000, L, W),
          Road(0, 40000, M, W), Road(0, -40000, M, W),
          Road(10000, 10000, W, S), Road(10000, 10000, S, W),
          Road(-10000, 10000, W, S), Road(-10000, 10000, S, W),
          Road(10000, -10000, W, S), Road(10000, -10000, S, W),
          Road(-10000, -10000, W, S), Road(-10000, -10000, S, W),
          Road(30000, 20000, W, S), Road(30000, -20000, W, S),
          Road(-30000, 20000, W, S), Road(-30000, -20000, W, S),
          Road(20000, 30000, S, W), Road(-20000, 30000, S, W),
          Road(20000, -30000, S, W), Road(-20000, -30000, S, W),
          Road(30000, 0, W, S), Road(-30000, 0, W, S),
          Road(0, 30000, S, W), Road(0, -30000, S, W) >>

ROAD_MARGIN == 500
isOnRoad(x, z) ==
    \E i \in 1..Len(ROAD_DEFS) :
        LET r == ROAD_DEFS[i]
        IN  /\ 2 * Abs(x - r.x) < r.w + 2 * ROAD_MARGIN
            /\ 2 * Abs(z - r.z) < r.d + 2 * ROAD_MARGIN

----------------------------------------------------------------------------
(* Squared distance dx*dx + dz*dz.  Beyond FAR on an axis the sum saturates *)
(* (it is only ever compared with limits far below FAR squared).            *)
FAR == 30000
SqDist(dx, dz) ==
    IF Abs(dx) > FAR \/ Abs(dz) > FAR THEN 2 * FAR * FAR ELSE dx * dx + dz * dz

----------------------------------------------------------------------------
(* animate: input *)
Intent(key, tc) == key \/ tc

(* animate: car physics (dt-scaled) *)
(* variant: the per-frame update, not scaled by dt *)
LongitudinalPerFrame(s, accel, brake, dt) ==
    IF accel THEN Min(s + CAR_ACCEL, CAR_MAX_SPEED)
    ELSE IF brake THEN Max(s - CAR_BRAKE, CAR_REVERSE_MAX)
    ELSE IF s > 0 THEN Max(0, s - CAR_FRICTION)
    ELSE IF s < 0 THEN Min(0, s + CAR_FRICTION)
    ELSE s
(* variant: the same update without the clamps to the speed limits *)
LongitudinalNoClamp(s, accel, brake, dt) ==
    IF accel THEN s + Div(CAR_ACCEL * dt, DTU)
    ELSE IF brake THEN s - Div(CAR_BRAKE * dt, DTU)
    ELSE IF s > 0 THEN Max(0, s - Div(CAR_FRICTION * dt, DTU))
    ELSE IF s < 0 THEN Min(0, s + Div(CAR_FRICTION * dt, DTU))
    ELSE s
(* variant: friction subtracted without stopping at 0 *)
LongitudinalNoSettle(s, accel, brake, dt) ==
    IF accel THEN Min(s + Div(CAR_ACCEL * dt, DTU), CAR_MAX_SPEED)
    ELSE IF brake THEN Max(s - Div(CAR_BRAKE * dt, DTU), CAR_REVERSE_MAX)
    ELSE IF s > 0 THEN s - Div(CAR_FRICTION * dt, DTU)
    ELSE IF s < 0 THEN s + Div(CAR_FRICTION * dt, DTU)
    ELSE s
Longitudinal(s, accel, brake, dt) ==
    IF accel THEN Min(s + Div(CAR_ACCEL * dt, DTU), CAR_MAX_SPEED)
    ELSE IF brake THEN Max(s - Div(CAR_BRAKE * dt, DTU), CAR_REVERSE_MAX)
    ELSE IF s > 0 THEN Max(0, s - Div(CAR_FRICTION * dt, DTU))
    ELSE IF s < 0 THEN Min(0, s + Div(CAR_FRICTION * dt, DTU))
    ELSE s

(* variant: a steering factor of at least 0.1 *)
SteerStepFloor(s, dt) ==
    LET sf == Max(Min(Abs(s), SPD), SPD \div 10)
    IN  Div(STEER_SPEED * Div(sf * dt, DTU), SPD) * (IF s >= 0 THEN 1 ELSE -1)
SteerStep(s, dt) ==
    LET sf == Min(Abs(s), SPD)
    IN  Div(STEER_SPEED * Div(sf * dt, DTU), SPD) * (IF s >= 0 THEN 1 ELSE -1)
Steer(a, s, left, right, dt) ==
    LET a1 == IF left THEN a + SteerStep(s, dt) ELSE a
    IN  IF right THEN a1 - SteerStep(s, dt) ELSE a1

(* displacement sin(angle) * speed * dt, in POS *)
Advance(trig, s, dt) == Div(trig * Div(s * dt, DTU), TRIG * (SPD \div POS))
CandX(x, a, s, dt) == x + Advance(Sin(a), s, dt)
CandZ(z, a, s, dt) == z + Advance(Cos(a), s, dt)

(* animate: collision tests *)
(* variant: rectangles one unit smaller on each side *)
HitsBuildingLoose(bs, nx, nz) ==
    \E i \in 1..Len(bs) : Abs(nx - bs[i].x) < bs[i].hw - POS /\ Abs(nz - bs[i].z) < bs[i].hd - POS
HitsBuilding(bs, nx, nz) ==
    \E i \in 1..Len(bs) : Abs(nx - bs[i].x) < bs[i].hw /\ Abs(nz - bs[i].z) < bs[i].hd
HitsCircle(cs, nx, nz) ==
    \E i \in 1..Len(cs) :
        SqDist(nx - cs[i].x, nz - cs[i].z) < cs[i].r * cs[i].r + 2 * POS * POS
checkNPCCollision(ns, x, z) ==
    \E i \in 1..Len(ns) : SqDist(x - ns[i].x, z - ns[i].z) < 9 * POS * POS

(* variant: the chain tested from the NPCs back to the buildings *)
CollisionLastFirst(bs, ts, ls, ns, nx, nz) ==
    IF checkNPCCollision(ns, nx, nz) THEN "npc"
    ELSE IF HitsCircle(ls, nx, nz) THEN "lamp"
    ELSE IF HitsCircle(ts, nx, nz) THEN "tree"
    ELSE IF HitsBuilding(bs, nx, nz) THEN "building"
    ELSE "none"
(* which test of the chain buildings, trees, lamps, NPCs sets `collided` *)
Collision(bs, ts, ls, ns, nx, nz) ==
    IF HitsBuilding(bs, nx, nz) THEN "building"
    ELSE IF HitsCircle(ts, nx, nz) THEN "tree"
    ELSE IF HitsCircle(ls, nx, nz) THEN "lamp"
    ELSE IF checkNPCCollision(ns, nx, nz) THEN "npc"
    ELSE "none"

(* variant: a bounce of -0.5 *)
BounceHalf(s) == Div(s * (-5), 10)
Bounce(s) == Div(s * (-3), 10)

(* variant: the position written back without the clamp *)
ClampBoundNone(v) == v
ClampBound(v) == Max(-WORLD_BOUND, Min(WORLD_BOUND, v))

Lean(l, left, right, dt) ==
    LET target == IF left THEN 3000 ELSE IF right THEN -3000 ELSE 0
    IN  l + Div((target - l) * 8 * dt, 100 * DTU)

----------------------------------------------------------------------------
(* animate: traffic lights (cycle every 6 s) *)
TL_CYCLE == 6 * TICKS_PER_SEC
(* variant: yellow lasting until 50% of the cycle only *)
SignalShortYellow(t) ==
    LET ph == t % TL_CYCLE
    IN  IF ph * 100 < 45 * TL_CYCLE THEN [red |-> 10, yellow |-> 10, green |-> 90]
        ELSE IF ph * 100 < 50 * TL_CYCLE THEN [red |-> 10, yellow |-> 90, green |-> 10]
        ELSE [red |-> 90, yellow |-> 10, green |-> 10]
(* variant: yellow lasting until 65% of the cycle *)
SignalLate(t) ==
    LET ph == t % TL_CYCLE
    IN  IF ph * 100 < 45 * TL_CYCLE THEN [red |-> 10, yellow |-> 10, green |-> 90]
        ELSE IF ph * 100 < 65 * TL_CYCLE THEN [red |-> 10, yellow |-> 90, green |-> 10]
        ELSE [red |-> 90, yellow |-> 10, green |-> 10]
Signal(t) ==
    LET ph == t % TL_CYCLE
    IN  IF ph * 100 < 45 * TL_CYCLE THEN [red |-> 10, yellow |-> 10, green |-> 90]
        ELSE IF ph * 100 < 55 * TL_CYCLE THEN [red |-> 10, yellow |-> 90, green |-> 10]
        ELSE [red |-> 90, yellow |-> 10, green |-> 10]

----------------------------------------------------------------------------
(* NPCSystem.js *)
RoadLen(r) == IF r.w > r.d THEN r.w ELSE r.d
validRoads == SelectSeq(ROAD_DEFS, LAMBDA r : Max(r.w, r.d) > 100 * POS)

(* one agent of createNPCs; rPos, rLane, rDir, rSpeed are the Math.random() *)
(* draws in per-mille                                                       *)
NewNPC(i, rPos, rLane, rDir, rSpeed) ==
    LET road == validRoads[(i % Len(validRoads)) + 1]
        isH  == road.w > road.d
        len  == RoadLen(road)
        pos  == Div(Div((rPos - 500) * len, 1000) * 7, 10)
        lane == (IF rLane > 500 THEN 1 ELSE -1) * 280
        dir  == IF rDir > 500 THEN 1 ELSE -1
    IN  [ road |-> road, isH |-> isH,
          x |-> IF isH THEN road.x + pos ELSE road.x + lane,
          z |-> IF isH THEN road.z + lane ELSE road.z + pos,
          rotY |-> IF isH THEN (IF dir > 0 THEN PI_ANG \div 2 ELSE -(PI_ANG \div 2))
                   ELSE (IF dir > 0 THEN 0 ELSE PI_ANG),
          speed |-> 15 + Div(rSpeed * 40, 1000),
          direction |-> dir, lane |-> lane ]

(* variant: the agent advanced along the wrong axis, never turning *)
StepNPCSwapAxis(n, dt) ==
    IF n.isH THEN [n EXCEPT !.z = n.z + Div(n.speed * n.direction * dt, DTU)]
    ELSE [n EXCEPT !.x = n.x + Div(n.speed * n.direction * dt, DTU)]
(* variant: the direction reversed at the line, the facing left as it was *)
StepNPCNoFacing(n, dt) ==
    LET len  == IF n.isH THEN n.road.w ELSE n.road.d
        half == Div(len * 38, 100)
    IN  IF n.isH
        THEN LET x1 == n.x + Div(n.speed * n.direction * dt, DTU)
             IN  IF x1 > n.road.x + half THEN [n EXCEPT !.x = x1, !.direction = -1]
                 ELSE IF x1 < n.road.x - half THEN [n EXCEPT !.x = x1, !.direction = 1]
                 ELSE [n EXCEPT !.x = x1]
        ELSE LET z1 == n.z + Div(n.speed * n.direction * dt, DTU)
             IN  IF z1 > n.road.z + half THEN [n EXCEPT !.z = z1, !.direction = -1]
                 ELSE IF z1 < n.road.z - half THEN [n EXCEPT !.z = z1, !.direction = 1]
                 ELSE [n EXCEPT !.z = z1]
StepNPC(n, dt) ==
    LET len  == IF n.isH THEN n.road.w ELSE n.road.d
        half == Div(len * 38, 100)
    IN  IF n.isH
        THEN LET x1 == n.x + Div(n.speed * n.direction * dt, DTU)
             IN  IF x1 > n.road.x + half
                 THEN [n EXCEPT !.x = x1, !.direction = -1, !.rotY = -(PI_ANG \div 2)]
                 ELSE IF x1 < n.road.x - half
                 THEN [n EXCEPT !.x = x1, !.direction = 1, !.rotY = PI_ANG \div 2]
                 ELSE [n EXCEPT !.x = x1]
        ELSE LET z1 == n.z + Div(n.speed * n.direction * dt, DTU)
             IN  IF z1 > n.road.z + half
                 THEN [n EXCEPT !.z = z1, !.direction = -1, !.rotY = PI_ANG]
                 ELSE IF z1 < n.road.z - half
                 THEN [n EXCEPT !.z = z1, !.direction = 1, !.rotY = 0]
                 ELSE [n EXCEPT !.z = z1]
(* variant: an agent within 4 units of the car waits for it *)
updateNPCsYield(ns, dt) ==
    [i \in 1..Len(ns) |->
        IF SqDist(px - ns[i].x, pz - ns[i].z) < 16 * POS * POS THEN ns[i] ELSE StepNPC(ns[i], dt)]
updateNPCs(ns, dt) == [i \in 1..Len(ns) |-> StepNPC(ns[i], dt)]

----------------------------------------------------------------------------
(* World.js: collision records *)
BuildingRec(bx, bz, w, d) ==
    [x |-> bx, z |-> bz, hw |-> w \div 2 + 150, hd |-> d \div 2 + 150]
TreeRec(tx, tz) == [x |-> tx, z |-> tz, r |-> 50]
LampRec(off, i) == [x |-> off, z |-> i, r |-> 30]

(* the 9-point road test of a building candidate *)
(* variant: only the centre of the candidate is tested *)
BuildingOnRoadCentreOnly(bx, bz, w, d) == isOnRoad(bx, bz)
BuildingOnRoad(bx, bz, w, d) ==
    LET hw == w \div 2 + 200
        hd == d \div 2 + 200
    IN  \/ isOnRoad(bx, bz)
        \/ isOnRoad(bx - hw, bz - hd) \/ isOnRoad(bx + hw, bz - hd)
        \/ isOnRoad(bx - hw, bz + hd) \/ isOnRoad(bx + hw, bz + hd)
        \/ isOnRoad(bx - hw, bz)      \/ isOnRoad(bx + hw, bz)
        \/ isOnRoad(bx, bz - hd)      \/ isOnRoad(bx, bz + hd)

TreeRejected(bs, tx, tz) ==
    \/ isOnRoad(tx, tz)
    \/ \E i \in 1..Len(bs) : Abs(tx - bs[i].x) < bs[i].hw /\ Abs(tz - bs[i].z) < bs[i].hd

(* the street-lamp loop: for (i = -lampRange; i < lampRange; i += 35) [9, -9] *)
lampRange == (WORLD_SIZE * 4) \div 10
LAMP_STEP == 3500
LAMP_OFF  == 900
RECURSIVE LampLoop(_, _)
LampLoop(i, acc) ==
    IF i < lampRange
    THEN LampLoop(i + LAMP_STEP, acc \o << LampRec(LAMP_OFF, i), LampRec(-LAMP_OFF, i) >>)
    ELSE acc
AllLamps == LampLoop(-lampRange, << >>)

----------------------------------------------------------------------------
(* World.js: the geometry collectors C (one array per material group), the  *)
(* colour tables of the buildings and the leaves, and finalize               *)
Collectors ==
    { "road", "yellowDash", "whiteLine", "sidewalk", "interPad",
      "winFrame", "winGlass", "winLit", "ledge", "floorDiv",
      "door", "handle", "ac", "roofCyl", "roofAnt",
      "trunk",
      "lampPole", "lampArm", "lampBox", "lampBulb",
      "tlPole", "tlHousing", "tlRed", "tlYellow", "tlGreen",
      "bench", "trashcan", "hydrant" }
BUILDING_COLOURS == 13
LEAF_COLOURS     == 4

(* collectors filled by the road, marking, pad and sidewalk sections, by    *)
(* every accepted building, by every accepted tree, by the lamp loop and by *)
(* the traffic-light and furniture sections                                  *)
RoadCollectors     == { "road", "yellowDash", "whiteLine", "sidewalk", "interPad" }
BuildingCollectors == { "ledge", "winFrame", "door", "handle" }
TreeCollectors     == { "trunk" }
LampCollectors     == { "lampPole", "lampArm", "lampBox", "lampBulb" }
FixtureCollectors  ==
    { "tlPole", "tlHousing", "tlRed", "tlYellow", "tlGreen", "bench", "trashcan", "hydrant" }

NoFailure == [collectors |-> {}, bcolors |-> {}, lcolors |-> {}]

(* finalize over every group: one mesh per non-empty collector and per      *)
(* colour whose merge succeeds; sc.meshes holds the ground already           *)
(* variant: the lamp parts added one mesh each instead of merged *)
SurfaceCountLampsUnmerged(sc, failed) ==
    sc.meshes + Cardinality(sc.filled \ (failed.collectors \cup LampCollectors))
              + 4 * Len(lamps)
              + Cardinality(sc.bcolors \ failed.bcolors)
              + Cardinality(sc.lcolors \ failed.lcolors)
(* variant: a failed merge left uncaught, so that no group is finalized *)
SurfaceCountAbortOnFailure(sc, failed) ==
    IF failed = NoFailure
    THEN sc.meshes + Cardinality(sc.filled) + Cardinality(sc.bcolors) + Cardinality(sc.lcolors)
    ELSE sc.meshes
SurfaceCount(sc, failed) ==
    sc.meshes + Cardinality(sc.filled \ failed.collectors)
              + Cardinality(sc.bcolors \ failed.bcolors)
              + Cardinality(sc.lcolors \ failed.lcolors)

(* the scene when the placement loops start: the ground mesh added, the     *)
(* road sections collected *)
Scene0 == [filled |-> RoadCollectors, bcolors |-> {}, lcolors |-> {}, meshes |-> 1,
           failed |-> NoFailure]
(* a finished scene: every collector merged, one building and one leaf colour *)
SceneBuilt ==
    LET sc == [filled |-> Collectors, bcolors |-> {0}, lcolors |-> {0}, meshes |-> 1,
               failed |-> NoFailure]
    IN  [sc EXCEPT !.meshes = SurfaceCount(sc, NoFailure)]

----------------------------------------------------------------------------
(* animate: HUD speed, Math.abs(Math.round(st.speed * SPEED_MULT)) *)
SPEED_MULT == 80
DisplaySpeed(s) == Abs((2 * s * SPEED_MULT + SPD) \div (2 * SPD))

(* animate: the sections of the loop body, in the order they are executed *)
(* variant: the day / night lighting recomputed after the traffic agents *)
FrameOrderLightingLate ==
    << "input", "physics", "collision", "position", "headlight", "camera", "sun",
       "trafficlights", "npcs", "daynight", "effects", "hud", "minimap", "render" >>
FrameOrder ==
    << "input", "physics", "collision", "position", "headlight", "camera", "sun",
       "daynight", "trafficlights", "npcs", "effects", "hud", "minimap", "render" >>

----------------------------------------------------------------------------
(* State after construction *)
Touch0   == [gas |-> FALSE, brake |-> FALSE, left |-> FALSE, right |-> FALSE]
Legacy0  == [speed |-> 0, angle |-> 0, x |-> 0, z |-> 0, lean |-> 0,
             tA |-> FALSE, tB |-> FALSE, tL |-> FALSE, tR |-> FALSE]
Frame0   == [dt |-> 0, accel |-> FALSE, brake |-> FALSE, left |-> FALSE, right |-> FALSE,
             s0 |-> 0, x0 |-> 0, z0 |-> 0, v0 |-> 0, nx |-> 0, nz |-> 0, collided |-> "none",
             sec |-> 0, hud |-> 0, order |-> << >>]
Signal0  == [red |-> 80, yellow |-> 30, green |-> 30]
Monster0 == [x |-> 0, z |-> -MONSTER_SPAWN_DIST, visible |-> FALSE, wasNight |-> FALSE,
             dist |-> 9999 * POS, time |-> 0, rotY |-> 0]
MCall0   == [calls |-> 0, toggles |-> 0, flips |-> 0,
             isNight |-> FALSE, wasNight |-> FALSE, spawned |-> FALSE,
             sx |-> 0, sz |-> 0, cx |-> 0, cz |-> 0, heading |-> 0,
             isClose |-> FALSE, dist |-> 9999 * POS]
Hit0     == [cooldown |-> 0, hits |-> 0, sinceHit |-> 0, gap |-> 0, penalised |-> FALSE]
Build0   == [phase |-> "buildings", i |-> 0]
BuildDone == [phase |-> "done", i |-> 0]

----------------------------------------------------------------------------
(* animate: one frame of the game loop.  raw is clock.getDelta() in ticks, *)
(* ku/kd/kl/kr the keyboard state (ArrowUp|KeyW, ArrowDown|KeyS, ...).     *)
FrameStep(raw, ku, kd, kl, kr) ==
    LET dt    == Min(Div(raw * 60 * DTU, TICKS_PER_SEC), 3 * DTU)
        sec   == raw
        accel == Intent(ku, touch.gas)
        brake == Intent(kd, touch.brake)
        left  == Intent(kl, touch.left)
        right == Intent(kr, touch.right)
        v     == Longitudinal(speed, accel, brake, dt)
        a     == Steer(angle, v, left, right, dt)
        nx    == CandX(px, a, v, dt)
        nz    == CandZ(pz, a, v, dt)
    IN  \E c \in { Collision(buildings, trees, lamps, npcs, nx, nz) } :   \* collided
        /\ speed' = IF c # "none" THEN Bounce(v) ELSE v
        /\ angle' = a
        /\ px' = ClampBound(IF c # "none" THEN px ELSE nx)
        /\ pz' = ClampBound(IF c # "none" THEN pz ELSE nz)
        /\ lean' = Lean(lean, left, right, dt)
        /\ tlClock' = tlClock + sec
        /\ tl' = Signal(tlClock + sec)
        /\ npcs' = updateNPCs(npcs, dt)
        /\ fr' = [dt |-> dt, accel |-> accel, brake |-> brake, left |-> left, right |-> right,
                  s0 |-> speed, x0 |-> px, z0 |-> pz, v0 |-> v, nx |-> nx, nz |-> nz,
                  collided |-> c,
                  sec |-> sec, hud |-> DisplaySpeed(IF c # "none" THEN Bounce(v) ELSE v),
                  order |-> FrameOrder]
        /\ frames' = frames + 1
        /\ UNCHANGED << touch, worldVars, monsterVars, hit >>
(* the frame on its own: the legacy program is not running *)
Frame(raw, ku, kd, kl, kr) == FrameStep(raw, ku, kd, kl, kr) /\ UNCHANGED legacy

----------------------------------------------------------------------------
(* Driving specification: a world buildWorld can produce (one accepted     *)
(* building, one accepted tree, the lamp rows), one traffic agent, and the  *)
(* car at the origin or at a place it has driven to.  Frames last 1/60 s    *)
(* (dt = 1) or 1/15 s (dt capped at 3).                                      *)
DriveBuilding == BuildingRec(3000, 3000, 800, 800)
DriveTree     == TreeRec(2000, 2000)
DriveNPC      == NewNPC(0, 510, 999, 0, 999)

Start(x, z, a, s) == [x |-> x, z |-> z, a |-> a, s |-> s]
DriveStarts ==
    { Start(0, 0, 0, 0),                          \* as constructed
      Start(2400, 3000, 15708, 100000),           \* heading east into the building
      Start(2400, 3000, 47124, -40000),           \* reversing into the building
      Start(2000, 1800, 0, 120000),               \* heading north at the tree
      Start(900, -800, 0, 50000),                 \* heading north at a lamp
      Start(0, 700, 0, 100000),                   \* behind the traffic agent
      Start(67450, 0, 15708, 120000) }            \* at the east world bound

DriveDeltas == {100, 400}

InitDrive ==
    /\ \E st \in DriveStarts :
          /\ px = st.x /\ pz = st.z /\ angle = st.a /\ speed = st.s
    /\ lean = 0 /\ touch = Touch0 /\ fr = Frame0 /\ frames = 0
    /\ tlClock = 0 /\ tl = Signal0
    /\ npcs = << DriveNPC >>
    /\ ~BuildingOnRoad(3000, 3000, 800, 800)
    /\ buildings = << DriveBuilding >>
    /\ ~TreeRejected(buildings, 2000, 2000)
    /\ trees = << DriveTree >>
    /\ lamps = AllLamps
    /\ bw = BuildDone /\ scene = SceneBuilt
    /\ nightMode = FALSE /\ monster = Monster0 /\ mcall = MCall0 /\ hit = Hit0 /\ legacy = Legacy0

NextDrive ==
    \E raw \in DriveDeltas, ku \in BOOLEAN, kd \in BOOLEAN, kl \in BOOLEAN, kr \in BOOLEAN :
        /\ frames < MaxFrames
        /\ Frame(raw, ku, kd, kl, kr)

SpecDrive == InitDrive /\ [][NextDrive]_vars

----------------------------------------------------------------------------
(* Overlap specification: the car driven at places where the collision       *)
(* shapes of two categories overlap: a tree standing 0.5 units off the west  *)
(* face of the building, and a traffic agent passing the lamp at (9, -5)     *)
OverlapTree == TreeRec(2400, 3000)
OverlapNPC  == NewNPC(1, 510, 0, 999, 100)
OverlapStarts ==
    { Start(2280, 3100, 15708, 100000),           \* heading east at the tree and the building
      Start(900, -690, 0, 120000),                \* heading north at the lamp and the agent
      Start(900, -100, 31416, 100000),            \* heading south at the agent
      Start(900, -690, 0, 0) }                    \* at rest
OverlapDeltas == {100, 200}

InitOverlap ==
    /\ \E st \in OverlapStarts :
          /\ px = st.x /\ pz = st.z /\ angle = st.a /\ speed = st.s
    /\ lean = 0 /\ touch = Touch0 /\ fr = Frame0 /\ frames = 0
    /\ tlClock = 0 /\ tl = Signal0
    /\ npcs = << OverlapNPC >>
    /\ ~BuildingOnRoad(3000, 3000, 800, 800)
    /\ buildings = << DriveBuilding >>
    /\ ~TreeRejected(buildings, 2400, 3000)
    /\ trees = << OverlapTree >>
    /\ lamps = AllLamps
    /\ bw = BuildDone /\ scene = SceneBuilt
    /\ nightMode = FALSE /\ monster = Monster0 /\ mcall = MCall0 /\ hit = Hit0 /\ legacy = Legacy0

NextOverlap ==
    \E raw \in OverlapDeltas, ku \in BOOLEAN, kd \in BOOLEAN, kl \in BOOLEAN, kr \in BOOLEAN :
        /\ frames < MaxOverlapFrames
        /\ Frame(raw, ku, kd, kl, kr)

SpecOverlap == InitOverlap /\ [][NextOverlap]_vars

----------------------------------------------------------------------------
(* Touch specification: the on-screen controls of HUD.jsx.  Every button    *)
(* calls t(key, true) on touchstart / mousedown and t(key, false) on         *)
(* touchend / touchcancel / mouseup / mouseleave; the handler writes the one *)
(* key of touchRef.current.  (The drift button, which the frame physics     *)
(* modelled here does not read, is left out.)                                *)
TouchKeys == {"gas", "brake", "left", "right"}
(* variant: a handler that also clears the other keys *)
TouchSetExclusive(key, val) ==
    /\ touch' = [ k \in TouchKeys |-> IF k = key THEN val ELSE FALSE ]
    /\ UNCHANGED << playerVars, signalVars, npcs, worldVars, monsterVars, hit, legacy >>
TouchSet(key, val) ==
    /\ touch' = [touch EXCEPT ![key] = val]
    /\ UNCHANGED << playerVars, signalVars, npcs, worldVars, monsterVars, hit, legacy >>

NextTouch ==
    \/ \E key \in TouchKeys, val \in BOOLEAN : TouchSet(key, val)
    \/ frames < MaxTouchFrames /\ Frame(100, FALSE, FALSE, FALSE, FALSE)

InitTouch ==
    /\ px = 0 /\ pz = 0 /\ angle = 0 /\ speed = 0
    /\ lean = 0 /\ touch = Touch0 /\ fr = Frame0 /\ frames = 0
    /\ tlClock = 0 /\ tl = Signal0
    /\ npcs = << DriveNPC >>
    /\ buildings = << DriveBuilding >> /\ trees = << DriveTree >> /\ lamps = AllLamps
    /\ bw = BuildDone /\ scene = SceneBuilt
    /\ nightMode = FALSE /\ monster = Monster0 /\ mcall = MCall0 /\ hit = Hit0
    /\ legacy = Legacy0

SpecTouch == InitTouch /\ [][NextTouch]_vars

----------------------------------------------------------------------------
(* The legacy single-file App.jsx.  Its constants CAR_ACCEL, CAR_BRAKE,     *)
(* CAR_FRICTION, CAR_MAX_SPEED, CAR_REVERSE_MAX and STEER_SPEED (lines 6-11) *)
(* have the values of constants.js; WORLD_SIZE is 800 and the bound is 42%  *)
(* of it.  Its loop has no dt.                                               *)
LEGACY_WORLD_SIZE == 800 * POS
LegacyBound == (LEGACY_WORLD_SIZE * 42) \div 100

LegacyLongitudinal(s, accel, brake) ==
    IF accel THEN Min(s + CAR_ACCEL, CAR_MAX_SPEED)
    ELSE IF brake THEN Max(s - CAR_BRAKE, CAR_REVERSE_MAX)
    ELSE IF s > 0 THEN Max(0, s - CAR_FRICTION)
    ELSE IF s < 0 THEN Min(0, s + CAR_FRICTION)
    ELSE s
LegacySteerStep(s) ==
    LET sf == Min(Abs(s), SPD)
    IN  Div(STEER_SPEED * sf, SPD) * (IF s >= 0 THEN 1 ELSE -1)
LegacySteer(a, s, left, right) ==
    LET a1 == IF left THEN a + LegacySteerStep(s) ELSE a
    IN  IF right THEN a1 - LegacySteerStep(s) ELSE a1
LegacyAdvance(trig, s) == Div(trig * s, TRIG * (SPD \div POS))
LegacyClamp(v, bound) == Max(-bound, Min(bound, v))
(* variant: the lean smoothed with 0.1 *)
LegacyLeanTenth(l, left, right) ==
    LET target == IF left THEN 3000 ELSE IF right THEN -3000 ELSE 0
    IN  l + Div((target - l) * 10, 100)
LegacyLean(l, left, right) ==
    LET target == IF left THEN 3000 ELSE IF right THEN -3000 ELSE 0
    IN  l + Div((target - l) * 8, 100)

(* one run of the legacy animate on the record lg, as far as the car goes;  *)
(* bound is its `const bound`                                                *)
LegacyStep(lg, bs, bound, ku, kd, kl, kr) ==
    LET accel == ku \/ lg.tA
        brake == kd \/ lg.tB
        left  == kl \/ lg.tL
        right == kr \/ lg.tR
        v  == LegacyLongitudinal(lg.speed, accel, brake)
        a  == LegacySteer(lg.angle, v, left, right)
        nx == lg.x + LegacyAdvance(Sin(a), v)
        nz == lg.z + LegacyAdvance(Cos(a), v)
        c  == HitsBuilding(bs, nx, nz)
    IN  [lg EXCEPT !.speed = IF c THEN Div(v * (-3), 10) ELSE v,
                   !.angle = a,
                   !.x = LegacyClamp(IF c THEN lg.x ELSE nx, bound),
                   !.z = LegacyClamp(IF c THEN lg.z ELSE nz, bound),
                   !.lean = LegacyLean(lg.lean, left, right)]

LegacyFrame(ku, kd, kl, kr) ==
    /\ legacy' = LegacyStep(legacy, buildings, LegacyBound, ku, kd, kl, kr)
    /\ frames' = frames + 1
    /\ UNCHANGED << speed, angle, px, pz, lean, fr, touch, signalVars, npcs, worldVars,
                    monsterVars, hit >>

(* container._setTouch *)
LegacySetTouch(a, b, l, r) ==
    /\ legacy' = [legacy EXCEPT !.tA = a, !.tB = b, !.tL = l, !.tR = r]
    /\ UNCHANGED << playerVars, touch, signalVars, npcs, worldVars, monsterVars, hit >>
(* the four buttons of the legacy OpenWorldDrive *)
LegacyTouchStart(k) ==
    IF k \in {"left", "right"}
    THEN LegacySetTouch(FALSE, FALSE, k = "left", k = "right")
    ELSE LegacySetTouch(k = "gas", k = "brake", FALSE, FALSE)
LegacyTouchEnd == LegacySetTouch(FALSE, FALSE, FALSE, FALSE)

InitLegacy ==
    /\ px = 0 /\ pz = 0 /\ angle = 0 /\ speed = 0
    /\ lean = 0 /\ touch = Touch0 /\ fr = Frame0 /\ frames = 0
    /\ tlClock = 0 /\ tl = Signal0
    /\ npcs = << >>
    /\ buildings = << DriveBuilding >> /\ trees = << >> /\ lamps = << >>
    /\ bw = BuildDone /\ scene = SceneBuilt
    /\ nightMode = FALSE /\ monster = Monster0 /\ mcall = MCall0 /\ hit = Hit0
    /\ legacy = Legacy0

NextLegacyTouch ==
    \/ \E k \in TouchKeys : LegacyTouchStart(k)
    \/ LegacyTouchEnd
    \/ frames < MaxLegacyFrames /\ LegacyFrame(FALSE, FALSE, FALSE, FALSE)

SpecLegacyTouch == InitLegacy /\ [][NextLegacyTouch]_vars

----------------------------------------------------------------------------
(* Lock-step specification: the modular loop at 60 Hz (dt = 1) and the      *)
(* legacy loop run side by side on the same keys, from the same state, in a *)
(* world that has buildings only, the legacy loop given the bound of the    *)
(* modular one                                                               *)
LockStarts ==
    { Start(0, 0, 0, 0),                          \* as constructed
      Start(2400, 3000, 15708, 100000),           \* heading east into the building
      Start(2400, 3000, 47124, -40000),           \* reversing into the building
      Start(67450, 0, 15708, 120000) }            \* at the east world bound

InitLock ==
    /\ \E st \in LockStarts :
          /\ px = st.x /\ pz = st.z /\ angle = st.a /\ speed = st.s
          /\ legacy = [Legacy0 EXCEPT !.x = st.x, !.z = st.z, !.angle = st.a, !.speed = st.s]
    /\ lean = 0 /\ touch = Touch0 /\ fr = Frame0 /\ frames = 0
    /\ tlClock = 0 /\ tl = Signal0
    /\ npcs = << >>
    /\ buildings = << DriveBuilding >> /\ trees = << >> /\ lamps = << >>
    /\ bw = BuildDone /\ scene = SceneBuilt
    /\ nightMode = FALSE /\ monster = Monster0 /\ mcall = MCall0 /\ hit = Hit0

NextLock ==
    \E ku \in BOOLEAN, kd \in BOOLEAN, kl \in BOOLEAN, kr \in BOOLEAN :
        /\ frames < MaxLockFrames
        /\ FrameStep(100, ku, kd, kl, kr)
        /\ legacy' = LegacyStep(legacy, buildings, WORLD_BOUND, ku, kd, kl, kr)

SpecLock == InitLock /\ [][NextLock]_vars

----------------------------------------------------------------------------
(* Frame-split specification: the car on the open avenue with one touch     *)
(* control (gas, brake or none) held throughout, started at any of a range  *)
(* of speeds, and frames of 0 to 3 time units                                *)
SplitSpeeds ==
    { CAR_REVERSE_MAX, -39000, -20000, -1500, -800, -300, 0, 300, 800, 1500, 60000,
      115000, 119000, CAR_MAX_SPEED }
SplitTouches ==
    { Touch0, [Touch0 EXCEPT !.gas = TRUE], [Touch0 EXCEPT !.brake = TRUE] }
SplitDeltas == {0, 50, 100, 150, 200, 250, 300}

InitSplit ==
    /\ px = 0 /\ pz = 0 /\ angle = 0 /\ speed \in SplitSpeeds
    /\ lean = 0 /\ touch \in SplitTouches /\ fr = Frame0 /\ frames = 0
    /\ tlClock = 0 /\ tl = Signal0
    /\ npcs = << DriveNPC >>
    /\ buildings = << DriveBuilding >> /\ trees = << DriveTree >> /\ lamps = AllLamps
    /\ bw = BuildDone /\ scene = SceneBuilt
    /\ nightMode = FALSE /\ monster = Monster0 /\ mcall = MCall0 /\ hit = Hit0
    /\ legacy = Legacy0

NextSplit ==
    \E raw \in SplitDeltas :
        /\ frames < MaxSplitFrames
        /\ Frame(raw, FALSE, FALSE, FALSE, FALSE)

SpecSplit == InitSplit /\ [][NextSplit]_vars

----------------------------------------------------------------------------
(* Coasting specification: the car rolling with no key and no touch control *)
(* held, forward in the open, forward into the building and in reverse;     *)
(* frames at 120 Hz (dt = 0.5), 60 Hz (dt = 1) and 15 Hz (dt capped at 3).   *)
CoastStarts ==
    { Start(0, 0, 0, 4000),
      Start(2449, 3000, 15708, 3200),
      Start(0, 0, 0, -2800) }
CoastDeltas == {50, 100, 400}

InitCoast ==
    /\ \E st \in CoastStarts :
          /\ px = st.x /\ pz = st.z /\ angle = st.a /\ speed = st.s
    /\ lean = 0 /\ touch = Touch0 /\ fr = Frame0 /\ frames = 0
    /\ tlClock = 0 /\ tl = Signal0
    /\ npcs = << DriveNPC >>
    /\ buildings = << DriveBuilding >> /\ trees = << DriveTree >> /\ lamps = AllLamps
    /\ bw = BuildDone /\ scene = SceneBuilt
    /\ nightMode = FALSE /\ monster = Monster0 /\ mcall = MCall0 /\ hit = Hit0 /\ legacy = Legacy0

NextCoast ==
    \E raw \in CoastDeltas :
        /\ frames < MaxCoastFrames
        /\ Frame(raw, FALSE, FALSE, FALSE, FALSE)

SpecCoast == InitCoast /\ [][NextCoast]_vars

----------------------------------------------------------------------------
(* Acceleration specification: the car at rest at the origin, facing along  *)
(* one of the two centre avenues, accelerate held on every frame at 60 Hz   *)
(* (dt = 1); the traffic agent of the first road is at its far end.          *)
AccelHeadings == {0, 15708, 31416}
AccelNPC == NewNPC(0, 0, 999, 0, 999)

InitAccel ==
    /\ px = 0 /\ pz = 0 /\ angle \in AccelHeadings /\ speed = 0
    /\ lean = 0 /\ touch = Touch0 /\ fr = Frame0 /\ frames = 0
    /\ tlClock = 0 /\ tl = Signal0
    /\ npcs = << AccelNPC >>
    /\ buildings = << DriveBuilding >> /\ trees = << DriveTree >> /\ lamps = AllLamps
    /\ bw = BuildDone /\ scene = SceneBuilt
    /\ nightMode = FALSE /\ monster = Monster0 /\ mcall = MCall0 /\ hit = Hit0 /\ legacy = Legacy0

NextAccel ==
    /\ frames < MaxAccelFrames
    /\ Frame(100, TRUE, FALSE, FALSE, FALSE)

SpecAccel == InitAccel /\ [][NextAccel]_vars

----------------------------------------------------------------------------
(* Signal specification: the car left alone at the origin, frames of very  *)
(* different lengths (1/60 s, 0.5 s, 2.83 s).                               *)
SignalDeltas == {100, 3000, 17000}

InitIdle ==
    /\ px = 0 /\ pz = 0 /\ angle = 0 /\ speed = 0
    /\ lean = 0 /\ touch = Touch0 /\ fr = Frame0 /\ frames = 0
    /\ tlClock = 0 /\ tl = Signal0
    /\ npcs = << DriveNPC >>
    /\ buildings = << DriveBuilding >> /\ trees = << DriveTree >> /\ lamps = AllLamps
    /\ bw = BuildDone /\ scene = SceneBuilt
    /\ nightMode = FALSE /\ monster = Monster0 /\ mcall = MCall0 /\ hit = Hit0 /\ legacy = Legacy0

NextSignal ==
    \E raw \in SignalDeltas :
        /\ frames < MaxSignalFrames
        /\ Frame(raw, FALSE, FALSE, FALSE, FALSE)

(* Phase-order specification: frames shorter than 0.6 s, the longest of     *)
(* them 1/6000 s short of it                                                 *)
PhaseDeltas == {1, 3000, 3599}
NextPhase ==
    \E raw \in PhaseDeltas :
        /\ frames < MaxPhaseFrames
        /\ Frame(raw, FALSE, FALSE, FALSE, FALSE)
SpecPhase == InitIdle /\ [][NextPhase]_vars

SpecSignal == InitIdle /\ [][NextSignal]_vars

----------------------------------------------------------------------------
(* Traffic specification: createNPCs, then updateNPCs steps.               *)
NPCDraws  == {0, 999}        \* Math.random() for position, lane and direction
NPCSpeedDraws == {999}       \* Math.random() for speed (0.15 + r * 0.4)
TrafficDts == {100, 300}

NPCCount == Min(NPC_COUNT, MaxNPC)

RECURSIVE NPCArrays(_)
NPCArrays(k) ==
    IF k = 0 THEN { << >> }
    ELSE { Append(ns, NewNPC(k - 1, rp, rl, rd, rs)) :
             ns \in NPCArrays(k - 1), rp \in NPCDraws, rl \in NPCDraws,
             rd \in NPCDraws, rs \in NPCSpeedDraws }

createNPCs ==
    /\ bw = BuildDone /\ frames = 0 /\ npcs = << >>
    /\ npcs' \in NPCArrays(NPCCount)
    /\ frames' = 1
    /\ UNCHANGED << speed, angle, px, pz, lean, touch, legacy, fr, signalVars,
                    worldVars, monsterVars, hit >>

updateNPCsStep(dt) ==
    /\ frames >= 1 /\ frames <= MaxNPCSteps
    /\ npcs' = updateNPCs(npcs, dt)
    /\ frames' = frames + 1
    /\ UNCHANGED << speed, angle, px, pz, lean, touch, legacy, fr, signalVars,
                    worldVars, monsterVars, hit >>

InitTraffic ==
    /\ px = 0 /\ pz = 0 /\ angle = 0 /\ speed = 0
    /\ lean = 0 /\ touch = Touch0 /\ fr = Frame0 /\ frames = 0
    /\ tlClock = 0 /\ tl = Signal0
    /\ npcs = << >>
    /\ buildings = << DriveBuilding >> /\ trees = << DriveTree >> /\ lamps = AllLamps
    /\ bw = BuildDone /\ scene = SceneBuilt
    /\ nightMode = FALSE /\ monster = Monster0 /\ mcall = MCall0 /\ hit = Hit0 /\ legacy = Legacy0

NextTraffic ==
    \/ createNPCs
    \/ \E dt \in TrafficDts : updateNPCsStep(dt)

SpecTraffic == InitTraffic /\ [][NextTraffic]_vars

----------------------------------------------------------------------------
(* World specification: the placement loops of buildWorld.  A draw is the  *)
(* candidate the Math.random() calls of one iteration produce.              *)
BuildingDraws ==
    { [bx |-> bx, bz |-> bz, w |-> w, d |-> d] :
        bx \in {0, 2000, 2590, 2600, 3000, 8700, 18700},
        bz \in {2600, 3000, 8790, -18790},
        w \in {800, 2400}, d \in {800, 2400} }
TreeDraws ==
    { [tx |-> tx, tz |-> tz] :
        tx \in {700, 1190, 1200, 3000, -21200}, tz \in {1250, 3000, -1199} }

BuildingTarget == Min(BUILDING_COUNT, MaxAttempts)
TreeTarget     == Min(TREE_COUNT, MaxAttempts)

(* the other draws of a building iteration: the colour index and what the   *)
(* height, lit-window, AC and rooftop draws add to the optional collectors; *)
(* the wide candidates are drawn tall and fully equipped in the last colour, *)
(* the others low and bare in the first                                      *)
BuildingTrim(c) ==
    IF c.w > 1600
    THEN [color |-> BUILDING_COLOURS - 1,
          extra |-> { "winGlass", "winLit", "floorDiv", "ac", "roofCyl", "roofAnt" }]
    ELSE [color |-> 0, extra |-> { "winGlass" }]
(* the leaf colour index drawn for a tree *)
LeafColour(c) == IF c.tz > 0 THEN LEAF_COLOURS - 1 ELSE 0

AddBuilding(sc, c) ==
    [sc EXCEPT !.filled = @ \cup BuildingCollectors \cup BuildingTrim(c).extra,
               !.bcolors = @ \cup { BuildingTrim(c).color }]
AddTree(sc, c) ==
    [sc EXCEPT !.filled = @ \cup TreeCollectors, !.lcolors = @ \cup { LeafColour(c) }]

(* variant: the loop bound off by one, i <= BUILDING_COUNT *)
PlaceBuildingOneMore ==
    /\ bw.phase = "buildings" /\ bw.i <= BuildingTarget
    /\ \E c \in BuildingDraws :
          IF BuildingOnRoad(c.bx, c.bz, c.w, c.d)
          THEN UNCHANGED << buildings, scene >>
          ELSE /\ buildings' = Append(buildings, BuildingRec(c.bx, c.bz, c.w, c.d))
               /\ scene' = AddBuilding(scene, c)
    /\ bw' = IF bw.i + 1 <= BuildingTarget THEN [bw EXCEPT !.i = bw.i + 1]
             ELSE [phase |-> "trees", i |-> 0]
    /\ UNCHANGED << playerVars, touch, legacy, signalVars, npcs, trees, lamps, monsterVars, hit >>
PlaceBuilding ==
    /\ bw.phase = "buildings" /\ bw.i < BuildingTarget
    /\ \E c \in BuildingDraws :
          IF BuildingOnRoad(c.bx, c.bz, c.w, c.d)
          THEN UNCHANGED << buildings, scene >>
          ELSE /\ buildings' = Append(buildings, BuildingRec(c.bx, c.bz, c.w, c.d))
               /\ scene' = AddBuilding(scene, c)
    /\ bw' = IF bw.i + 1 < BuildingTarget THEN [bw EXCEPT !.i = bw.i + 1]
             ELSE [phase |-> "trees", i |-> 0]
    /\ UNCHANGED << playerVars, touch, legacy, signalVars, npcs, trees, lamps, monsterVars, hit >>

PlaceTree ==
    /\ bw.phase = "trees" /\ bw.i < TreeTarget
    /\ \E c \in TreeDraws :
          IF TreeRejected(buildings, c.tx, c.tz)
          THEN UNCHANGED << trees, scene >>
          ELSE /\ trees' = Append(trees, TreeRec(c.tx, c.tz))
               /\ scene' = AddTree(scene, c)
    /\ bw' = IF bw.i + 1 < TreeTarget THEN [bw EXCEPT !.i = bw.i + 1]
             ELSE [phase |-> "lamps", i |-> 0]
    /\ UNCHANGED << playerVars, touch, legacy, signalVars, npcs, buildings, lamps, monsterVars, hit >>

PlaceLamps ==
    /\ bw.phase = "lamps"
    /\ lamps' = AllLamps
    /\ scene' = [scene EXCEPT !.filled = @ \cup LampCollectors]
    /\ bw' = [phase |-> "fixtures", i |-> 0]
    /\ UNCHANGED << playerVars, touch, legacy, signalVars, npcs, buildings, trees, monsterVars, hit >>

(* the traffic-light and street-furniture sections *)
PlaceFixtures ==
    /\ bw.phase = "fixtures"
    /\ scene' = [scene EXCEPT !.filled = @ \cup FixtureCollectors]
    /\ bw' = [phase |-> "finalize", i |-> 0]
    /\ UNCHANGED << playerVars, touch, legacy, signalVars, npcs, buildings, trees, lamps,
                    monsterVars, hit >>

(* FINALIZE: merge each group into one mesh; mergeGeometries may throw or   *)
(* return nothing for a group, which then adds no mesh                        *)
MergeFailures ==
    { NoFailure,
      [collectors |-> { "winFrame" }, bcolors |-> {}, lcolors |-> {}],
      [collectors |-> {}, bcolors |-> { 0 }, lcolors |-> {}],
      [collectors |-> { "trunk", "ledge" }, bcolors |-> {}, lcolors |-> { 0, LEAF_COLOURS - 1 }] }

Finalize ==
    /\ bw.phase = "finalize"
    /\ \E failed \in MergeFailures :
          scene' = [scene EXCEPT !.meshes = SurfaceCount(scene, failed), !.failed = failed]
    /\ bw' = BuildDone
    /\ UNCHANGED << playerVars, touch, legacy, signalVars, npcs, buildings, trees, lamps,
                    monsterVars, hit >>

InitWorld ==
    /\ px = 0 /\ pz = 0 /\ angle = 0 /\ speed = 0
    /\ lean = 0 /\ touch = Touch0 /\ fr = Frame0 /\ frames = 0
    /\ tlClock = 0 /\ tl = Signal0
    /\ npcs = << >>
    /\ buildings = << >> /\ trees = << >> /\ lamps = << >>
    /\ bw = Build0 /\ scene = Scene0
    /\ nightMode = FALSE /\ monster = Monster0 /\ mcall = MCall0 /\ hit = Hit0 /\ legacy = Legacy0

NextWorld == PlaceBuilding \/ PlaceTree \/ PlaceLamps \/ PlaceFixtures \/ Finalize

SpecWorld == InitWorld /\ [][NextWorld]_vars

----------------------------------------------------------------------------
(* Monster.js: updateMonster(monster, dt, carPos, isNight).  The mesh's     *)
(* height, rotation, arm sway, eye pulse and glow are presentation only.    *)

(* sin / cos of atan2(x, z) + PI: the unit vector from (x, z) to the origin; *)
(* atan2(0, 0) = 0                                                           *)
SinAtan2Pi(x, z) ==
    LET r == Sqrt(SqDist(x, z))
    IN  IF r = 0 THEN 0 ELSE -Div(x * TRIG, r)
CosAtan2Pi(x, z) ==
    LET r == Sqrt(SqDist(x, z))
    IN  IF r = 0 THEN -TRIG ELSE -Div(z * TRIG, r)

(* just became night -> spawn behind player *)
(* variant: the spawn without wasNight = true *)
SpawnNoLatch(m, cx, cz) ==
    [m EXCEPT !.x = cx + Div(SinAtan2Pi(cx, cz) * MONSTER_SPAWN_DIST, TRIG),
              !.z = cz + Div(CosAtan2Pi(cx, cz) * MONSTER_SPAWN_DIST, TRIG),
              !.visible = TRUE]
Spawn(m, cx, cz) ==
    [m EXCEPT !.x = cx + Div(SinAtan2Pi(cx, cz) * MONSTER_SPAWN_DIST, TRIG),
              !.z = cz + Div(CosAtan2Pi(cx, cz) * MONSTER_SPAWN_DIST, TRIG),
              !.visible = TRUE,
              !.wasNight = TRUE]

(* chase the player *)
(* variant: the distance taken after the step toward the player *)
ChaseDistAfterMove(m, dt, cx, cz) ==
    LET dx   == cx - m.x
        dz   == cz - m.z
        dist == Sqrt(SqDist(dx, dz))
        x1   == IF dist > 2 * POS THEN m.x + Div(dx * MONSTER_SPEED * dt, dist * DTU) ELSE m.x
        z1   == IF dist > 2 * POS THEN m.z + Div(dz * MONSTER_SPEED * dt, dist * DTU) ELSE m.z
    IN  [m EXCEPT !.dist = Sqrt(SqDist(cx - x1, cz - z1)), !.x = x1, !.z = z1]
(* variant: the step taken at any distance above 0 *)
ChaseNoStop(m, dt, cx, cz) ==
    LET dx   == cx - m.x
        dz   == cz - m.z
        dist == Sqrt(SqDist(dx, dz))
    IN  IF dist > 0
        THEN [m EXCEPT !.dist = dist,
                       !.x = m.x + Div(dx * MONSTER_SPEED * dt, dist * DTU),
                       !.z = m.z + Div(dz * MONSTER_SPEED * dt, dist * DTU)]
        ELSE [m EXCEPT !.dist = dist]
Chase(m, dt, cx, cz) ==
    LET dx   == cx - m.x
        dz   == cz - m.z
        dist == Sqrt(SqDist(dx, dz))
    IN  IF dist > 2 * POS
        THEN [m EXCEPT !.dist = dist,
                       !.x = m.x + Div(dx * MONSTER_SPEED * dt, dist * DTU),
                       !.z = m.z + Div(dz * MONSTER_SPEED * dt, dist * DTU)]
        ELSE [m EXCEPT !.dist = dist]

(* day: hide + reset *)
(* variant: the reset without hiding the mesh *)
HideStaysVisible(m) ==
    IF m.wasNight
    THEN [m EXCEPT !.x = 0, !.z = 0, !.wasNight = FALSE, !.dist = 9999 * POS]
    ELSE m
Hide(m) ==
    IF m.wasNight
    THEN [m EXCEPT !.visible = FALSE, !.x = 0, !.z = 0, !.wasNight = FALSE,
                   !.dist = 9999 * POS]
    ELSE m

MonsterTime(m, dt) == [m EXCEPT !.time = m.time + 16 * dt]

updateMonster(m, dt, cx, cz, isNight) ==
    LET m0 == MonsterTime(m, dt)
        m1 == IF isNight /\ ~m0.wasNight THEN Spawn(m0, cx, cz) ELSE m0
        m2 == IF isNight THEN Chase(m1, dt, cx, cz) ELSE Hide(m0)
    IN  [ m       |-> m2,
          spawned |-> isNight /\ ~m0.wasNight,
          sx      |-> m1.x,
          sz      |-> m1.z,
          isClose |-> isNight /\ m2.dist < MONSTER_HIT_DIST,
          dist    |-> m2.dist ]

(* toggleNight, and the effect that copies nightMode into nightRef; mcall   *)
(* counts the switches since the last updateMonster call (3: three or more) *)
(* variant: a switch to day that hides and resets the agent at once *)
toggleNightResets ==
    /\ nightMode' = ~nightMode
    /\ monster' = IF nightMode THEN Hide(monster) ELSE monster
    /\ mcall' = [mcall EXCEPT !.toggles = Min(@ + 1, 3)]
    /\ UNCHANGED << playerVars, touch, legacy, signalVars, npcs, worldVars, hit >>
toggleNight ==
    /\ nightMode' = ~nightMode
    /\ mcall' = [mcall EXCEPT !.toggles = Min(@ + 1, 3)]
    /\ UNCHANGED << playerVars, touch, legacy, signalVars, npcs, worldVars, monster, hit >>

(* one call of updateMonster with the car where it is and the flag as it is *)
MonsterCallWithin(raw, limit) ==
    LET dt == Min(Div(raw * 60 * DTU, TICKS_PER_SEC), 3 * DTU)
        r  == updateMonster(monster, dt, px, pz, nightMode)
    IN  /\ mcall.calls < limit
        /\ monster' = r.m
        /\ mcall' = [calls |-> mcall.calls + 1, toggles |-> 0, flips |-> mcall.toggles,
                     isNight |-> nightMode,
                     wasNight |-> monster.wasNight, spawned |-> r.spawned,
                     sx |-> r.sx, sz |-> r.sz, cx |-> px, cz |-> pz, heading |-> angle,
                     isClose |-> r.isClose, dist |-> r.dist]
        /\ UNCHANGED << playerVars, touch, legacy, signalVars, npcs, worldVars, nightMode, hit >>
MonsterCall(raw) == MonsterCallWithin(raw, MaxMonsterCalls)

MonsterPoses ==
    { Start(10000, 5000, 0, 0), Start(0, 0, 0, 0), Start(-3000, 4000, 15708, 50000),
      Start(25000, -12000, 31416, 0) }
MonsterDeltas == {100, 300}

InitMonster ==
    /\ \E st \in MonsterPoses :
          /\ px = st.x /\ pz = st.z /\ angle = st.a /\ speed = st.s
    /\ lean = 0 /\ touch = Touch0 /\ fr = Frame0 /\ frames = 0
    /\ tlClock = 0 /\ tl = Signal0
    /\ npcs = << >>
    /\ buildings = << DriveBuilding >> /\ trees = << DriveTree >> /\ lamps = AllLamps
    /\ bw = BuildDone /\ scene = SceneBuilt
    /\ nightMode = FALSE /\ monster = Monster0 /\ mcall = MCall0 /\ hit = Hit0 /\ legacy = Legacy0

NextMonster ==
    \/ toggleNight
    \/ \E raw \in MonsterDeltas : MonsterCall(raw)

SpecMonster == InitMonster /\ [][NextMonster]_vars

----------------------------------------------------------------------------
(* Chase specification: a night that lasts, the car standing still, and     *)
(* updateMonster called once per animation frame with dt 1 or 3.  The loop  *)
(* runs on requestAnimationFrame, so a call that can be made is made.       *)
ChasePoses == { Start(0, 0, 0, 0), Start(3000, 4000, 0, 0) }
InitChase ==
    /\ \E st \in ChasePoses :
          /\ px = st.x /\ pz = st.z /\ angle = st.a /\ speed = st.s
    /\ lean = 0 /\ touch = Touch0 /\ fr = Frame0 /\ frames = 0
    /\ tlClock = 0 /\ tl = Signal0
    /\ npcs = << >>
    /\ buildings = << DriveBuilding >> /\ trees = << DriveTree >> /\ lamps = AllLamps
    /\ bw = BuildDone /\ scene = SceneBuilt
    /\ nightMode = TRUE /\ monster = Monster0 /\ mcall = MCall0 /\ hit = Hit0
    /\ legacy = Legacy0
NextChase == \E raw \in MonsterDeltas : MonsterCallWithin(raw, MaxChaseCalls)
SpecChase == InitChase /\ [][NextChase]_vars /\ WF_vars(NextChase)

----------------------------------------------------------------------------
(* Frame Orchestrator, step 5: advance the antagonist with the frame's dt  *)
(* and apply the hit penalty, rate-limited by a cooldown timer.             *)
HIT_COOLDOWN == 2 * TICKS_PER_SEC
HitPenalty(s) == Div(s * (-5), 10)
CooldownAfter(cd, sec) == Max(0, cd - sec)
(* variant: the penalty applied on every close report *)
HitAllowedAlways(isClose, cd) == isClose
HitAllowed(isClose, cd) == isClose /\ cd = 0

MonsterHitStep(raw) ==
    LET dt  == Min(Div(raw * 60 * DTU, TICKS_PER_SEC), 3 * DTU)
        sec == raw
        r   == updateMonster(monster, dt, px, pz, nightMode)
        cd  == CooldownAfter(hit.cooldown, sec)
        pen == HitAllowed(r.isClose, cd)
    IN  /\ frames < MaxHitFrames
        /\ frames' = frames + 1
        /\ monster' = r.m
        /\ mcall' = [calls |-> mcall.calls + 1, toggles |-> 0, flips |-> mcall.toggles,
                     isNight |-> nightMode,
                     wasNight |-> monster.wasNight, spawned |-> r.spawned,
                     sx |-> r.sx, sz |-> r.sz, cx |-> px, cz |-> pz, heading |-> angle,
                     isClose |-> r.isClose, dist |-> r.dist]
        /\ speed' = IF pen THEN HitPenalty(speed) ELSE speed
        /\ hit' = [cooldown  |-> IF pen THEN HIT_COOLDOWN ELSE cd,
                   hits      |-> IF pen THEN hit.hits + 1 ELSE hit.hits,
                   sinceHit  |-> IF pen THEN 0 ELSE hit.sinceHit + sec,
                   gap       |-> IF pen THEN hit.sinceHit + sec ELSE hit.gap,
                   penalised |-> pen]
        /\ UNCHANGED << angle, px, pz, lean, fr, touch, legacy, signalVars, npcs, worldVars, nightMode >>

HitDeltas == {100, 6000, 9000}
HitMonsters ==
    { [Monster0 EXCEPT !.x = mx, !.z = 0, !.visible = TRUE, !.wasNight = TRUE,
                       !.dist = mx] : mx \in {300, 800} }

InitHit ==
    /\ px = 0 /\ pz = 0 /\ angle = 0 /\ speed = 100000
    /\ lean = 0 /\ touch = Touch0 /\ fr = Frame0 /\ frames = 0
    /\ tlClock = 0 /\ tl = Signal0
    /\ npcs = << >>
    /\ buildings = << DriveBuilding >> /\ trees = << DriveTree >> /\ lamps = AllLamps
    /\ bw = BuildDone /\ scene = SceneBuilt
    /\ nightMode = TRUE /\ monster \in HitMonsters /\ mcall = MCall0 /\ hit = Hit0 /\ legacy = Legacy0

NextHit == \E raw \in HitDeltas : MonsterHitStep(raw)

SpecHit == InitHit /\ [][NextHit]_vars

----------------------------------------------------------------------------
(* Geometry used to state the properties *)
InsideRect(x, z, b) == Abs(x - b.x) < b.hw /\ Abs(z - b.z) < b.hd
InsideSomeBuilding(x, z) == \E i \in 1..Len(buildings) : InsideRect(x, z, buildings[i])

(* open rectangles overlap; half extents are given doubled to stay integral *)
RectsOverlap2(x1, z1, w1, d1, x2, z2, w2, d2) ==
    /\ 2 * Abs(x1 - x2) < w1 + w2
    /\ 2 * Abs(z1 - z2) < d1 + d2
(* a disc of squared radius rr around (x, z) meets the rectangle of road r *)
DiscMeetsRoad(x, z, rr, r) ==
    LET ex == Max(2 * Abs(x - r.x) - r.w, 0)
        ez == Max(2 * Abs(z - r.z) - r.d, 0)
    IN  SqDist(ex, ez) < 4 * rr
InsideRoad(x, z, r) == 2 * Abs(x - r.x) < r.w /\ 2 * Abs(z - r.z) < r.d
Roads == { ROAD_DEFS[i] : i \in 1..Len(ROAD_DEFS) }

----------------------------------------------------------------------------
(* C1: after every frame, collisions included, the speed lies in           *)
(* [CAR_REVERSE_MAX, CAR_MAX_SPEED] = [-0.4, 1.2].                           *)
C1_SpeedInRange == -40000 <= speed /\ speed <= 120000
(* a frame ran at top speed and a collision inverted it *)
C1_Witness == frames > 0 /\ fr.collided # "none" /\ fr.v0 = CAR_MAX_SPEED /\ fr.accel

(* C2: the car never ends a frame strictly inside a building rectangle.    *)
C2_NeverInsideBuilding == ~InsideSomeBuilding(px, pz)
(* a frame whose candidate position was inside the building was reverted *)
C2_Witness ==
    frames > 0 /\ InsideSomeBuilding(fr.nx, fr.nz) /\ (fr.nx # fr.x0 \/ fr.nz # fr.z0)

(* C3: when the candidate position of a frame is inside a building, the    *)
(* frame flags a collision, the position after the frame is the position    *)
(* before it, and the speed is -0.3 times what it was before the collision. *)
C3_BuildingBounce ==
    (frames > 0 /\ InsideSomeBuilding(fr.nx, fr.nz)) =>
        /\ fr.collided # "none"
        /\ px = fr.x0 /\ pz = fr.z0
        /\ Abs(10 * speed + 3 * fr.v0) < 10
C3_Witness ==
    frames > 0 /\ InsideSomeBuilding(fr.nx, fr.nz) /\ fr.v0 < 0 /\ speed > 0

(* C4: the spawn teleport happens on an updateMonster call exactly when    *)
(* isNight is true on that call and was not true on the call before it (the *)
(* agent was dormant); consecutive night calls never repeat it.             *)
C4_SpawnOncePerEdge ==
    [][ mcall'.calls = mcall.calls + 1 =>
          /\ mcall'.spawned <=> (mcall'.isNight /\ ~(mcall.calls > 0 /\ mcall.isNight))
          /\ mcall'.spawned => ~monster.visible /\ monster'.visible
          /\ (mcall'.isNight /\ ~mcall'.spawned) => mcall'.wasNight ]_vars
(* a second night call in a row, which did not teleport *)
C4_Witness == mcall.calls >= 2 /\ mcall.isNight /\ mcall.wasNight /\ ~mcall.spawned

(* C5: on the day-to-night edge the antagonist is put at the car's position *)
(* minus MONSTER_SPAWN_DIST times the heading's forward vector              *)
(* (sin heading, cos heading); for a car at (100, 50) with heading 0 that   *)
(* is (100, 50 - MONSTER_SPAWN_DIST).                                        *)
C5_SpawnBehindHeading ==
    mcall.spawned =>
        /\ Abs(mcall.sx - (mcall.cx - Div(Sin(mcall.heading) * MONSTER_SPAWN_DIST, TRIG))) <= POS
        /\ Abs(mcall.sz - (mcall.cz - Div(Cos(mcall.heading) * MONSTER_SPAWN_DIST, TRIG))) <= POS

(* C6: while the antagonist is within the hit radius on consecutive frames, *)
(* the speed penalty is applied at most once per cooldown window: two       *)
(* penalties are at least 2 seconds apart.                                   *)
C6_PenaltyRateLimited ==
    /\ (hit.penalised /\ hit.hits > 1) => hit.gap >= 2 * TICKS_PER_SEC
    /\ (mcall.calls > 0 /\ mcall.isClose /\ hit.hits > 0 /\ ~hit.penalised) =>
           hit.sinceHit < 2 * TICKS_PER_SEC
(* the antagonist stayed close and a second penalty was applied *)
C6_Witness == hit.penalised /\ hit.hits = 2 /\ mcall.isClose

(* C7: after each frame the signal phase is a function of the clock modulo  *)
(* 6 s: green in [0, 2.7), yellow in [2.7, 3.3), red in [3.3, 6); exactly   *)
(* one intensity is 0.9 and the other two are 0.1.                           *)
C7_SignalPhase ==
    frames > 0 =>
        LET t == tlClock % (6 * TICKS_PER_SEC)
            g == t < 16200
            y == t >= 16200 /\ t < 19800
            r == t >= 19800
        IN  /\ tl.green  = (IF g THEN 90 ELSE 10)
            /\ tl.yellow = (IF y THEN 90 ELSE 10)
            /\ tl.red    = (IF r THEN 90 ELSE 10)
            /\ Cardinality({c \in {"red", "yellow", "green"} : tl[c] = 90}) = 1
(* yellow in a later cycle of the clock *)
C7_Witness == frames > 0 /\ tl.yellow = 90 /\ tlClock > 6 * TICKS_PER_SEC

(* C8: no accepted building's collision rectangle overlaps a road rectangle *)
(* enlarged by the 5-unit margin, and no accepted tree's collision circle   *)
(* overlaps a road rectangle.                                                *)
C8_OffRoad ==
    /\ \A i \in 1..Len(buildings) : \A r \in Roads :
          ~RectsOverlap2(buildings[i].x, buildings[i].z,
                         2 * buildings[i].hw, 2 * buildings[i].hd,
                         r.x, r.z, r.w + 1000, r.d + 1000)
    /\ \A i \in 1..Len(trees) : \A r \in Roads :
          ~DiscMeetsRoad(trees[i].x, trees[i].z, trees[i].r * trees[i].r + 2 * POS * POS, r)
(* the builder has accepted a building that touches a road margin, and a tree *)
C8_Witness ==
    /\ bw.phase = "done" /\ Len(trees) > 0
    /\ \E i \in 1..Len(buildings) : buildings[i].x - buildings[i].hw = 1250

(* C9: no lamp returned by buildWorld is inside a ROAD_DEFS rectangle.      *)
C9_LampsOffRoad ==
    \A i \in 1..Len(lamps) : \A r \in Roads : ~InsideRoad(lamps[i].x, lamps[i].z, r)

(* C10: every traffic agent stays on its road: its coordinate across the    *)
(* road is the centre line plus its lane offset (+2.8 or -2.8), and its      *)
(* coordinate along the road stays within the road's rectangle.              *)
C10_OnRoadSegment ==
    \A i \in 1..Len(npcs) :
        LET n == npcs[i]
            horizontal == n.road.w > n.road.d
        IN  /\ n.lane \in {280, -280}
            /\ IF horizontal
               THEN n.z = n.road.z + n.lane /\ 2 * Abs(n.x - n.road.x) <= n.road.w
               ELSE n.x = n.road.x + n.lane /\ 2 * Abs(n.z - n.road.z) <= n.road.d
(* agents on a horizontal and on a vertical road, one of them past its turn line *)
C10_Witness ==
    /\ \E i \in 1..Len(npcs) : npcs[i].isH
    /\ \E i \in 1..Len(npcs) : ~npcs[i].isH
    /\ \E i \in 1..Len(npcs) :
          LET n == npcs[i]
          IN  100 * Abs((IF n.isH THEN n.x - n.road.x ELSE n.z - n.road.z)) > 38 * RoadLen(n.road)

----------------------------------------------------------------------------
(* offset of an agent from the centre of its road along the road, and the  *)
(* facing createNPCs gives a direction                                      *)
AlongOffset(n) == IF n.road.w > n.road.d THEN n.x - n.road.x ELSE n.z - n.road.z
FacingOf(n, dir) ==
    IF n.road.w > n.road.d THEN (IF dir > 0 THEN 15708 ELSE -15708)
    ELSE (IF dir > 0 THEN 0 ELSE 31416)
TurnedBack(n) ==
    /\ n.direction = (IF AlongOffset(n) > 0 THEN -1 ELSE 1)
    /\ n.rotY = FacingOf(n, n.direction)

(* C11 as stated: after an updateNPCs step an agent that is more than 38%  *)
(* of the half-length of its road (19% of the length) away from the centre  *)
(* has its direction reversed toward the centre and its facing matching.    *)
C11_TurnAtHalfLength38 ==
    frames >= 2 =>
        \A i \in 1..Len(npcs) :
            100 * Abs(AlongOffset(npcs[i])) > 19 * RoadLen(npcs[i].road) => TurnedBack(npcs[i])

(* C11 amended: in an updateNPCs step an agent whose new position along    *)
(* its road is more than 38% of the road's length (76% of the half-length)  *)
(* away from the centre gets the direction that points back to the centre   *)
(* and the facing of that direction; any other agent keeps both.            *)
C11_TurnAtLength38 ==
    [][ (frames >= 1 /\ frames' = frames + 1) =>
          \A i \in 1..Len(npcs) :
              LET n == npcs'[i]
              IN  IF 100 * Abs(AlongOffset(n)) > 38 * RoadLen(n.road)
                  THEN TurnedBack(n)
                  ELSE n.direction = npcs[i].direction /\ n.rotY = npcs[i].rotY ]_vars
(* agents on a horizontal and on a vertical road both past the line and turned *)
C11_Witness ==
    /\ frames >= 2
    /\ \E i \in 1..Len(npcs) :
          npcs[i].isH /\ 100 * AlongOffset(npcs[i]) > 38 * RoadLen(npcs[i].road)
          /\ npcs[i].direction = -1 /\ npcs[i].rotY = -15708
    /\ \E i \in 1..Len(npcs) :
          ~npcs[i].isH /\ 100 * AlongOffset(npcs[i]) < -38 * RoadLen(npcs[i].road)
          /\ npcs[i].direction = 1 /\ npcs[i].rotY = 0

----------------------------------------------------------------------------
BeyondBound(x, z) == Abs(x) > WORLD_BOUND \/ Abs(z) > WORLD_BOUND
(* nothing of the world at or near the point: no building, tree or lamp     *)
(* there, and no traffic agent within 10 units                               *)
ClearOfObstacles(x, z) ==
    /\ ~InsideSomeBuilding(x, z)
    /\ ~HitsCircle(trees, x, z) /\ ~HitsCircle(lamps, x, z)
    /\ \A i \in 1..Len(npcs) : SqDist(x - npcs[i].x, z - npcs[i].z) > 100 * POS * POS

(* C12: after every frame |x| <= WORLD_BOUND and |z| <= WORLD_BOUND; a     *)
(* frame whose candidate position lay beyond the bound, with no obstacle    *)
(* there, flags no collision, keeps the speed its longitudinal update gave  *)
(* (neither inverted nor reduced) and ends at the candidate clamped.         *)
C12_ClampNotCollision ==
    /\ Abs(px) <= WORLD_BOUND /\ Abs(pz) <= WORLD_BOUND
    /\ (frames > 0 /\ BeyondBound(fr.nx, fr.nz) /\ ClearOfObstacles(fr.nx, fr.nz)) =>
          /\ fr.collided = "none"
          /\ speed = fr.v0
          /\ px = Max(-WORLD_BOUND, Min(WORLD_BOUND, fr.nx))
          /\ pz = Max(-WORLD_BOUND, Min(WORLD_BOUND, fr.nz))
(* the car drove at full speed into the east bound and was held on it *)
C12_Witness ==
    /\ frames > 0 /\ fr.nx > WORLD_BOUND /\ px = WORLD_BOUND /\ fr.x0 < WORLD_BOUND
    /\ speed = CAR_MAX_SPEED /\ fr.collided = "none"

(* points of the straight move of the last frame, from the position before  *)
(* it to the candidate position                                              *)
MoveSteps == 0..16
MovePoint(k) ==
    [x |-> fr.x0 + Div(k * (fr.nx - fr.x0), 16), z |-> fr.z0 + Div(k * (fr.nz - fr.z0), 16)]
MovePassesCircle ==
    \E k \in MoveSteps :
        HitsCircle(trees, MovePoint(k).x, MovePoint(k).z)
          \/ HitsCircle(lamps, MovePoint(k).x, MovePoint(k).z)

(* C13: a frame whose straight move from the pre-frame position to the      *)
(* candidate position passes through a tree or lamp collision circle flags  *)
(* a collision and rejects the move (the car stays where it was).            *)
C13_NoTunnel ==
    (frames > 0 /\ MovePassesCircle) =>
        fr.collided # "none" /\ px = fr.x0 /\ pz = fr.z0

----------------------------------------------------------------------------
(* section a of the last frame was executed before section b *)
Before(a, b) ==
    \E i \in 1..Len(fr.order) : \E j \in 1..Len(fr.order) :
        i < j /\ fr.order[i] = a /\ fr.order[j] = b

----------------------------------------------------------------------------
(* the fastest start of the coasting specification and its shortest step *)
CoastTopSpeed ==
    CHOOSE m \in { Abs(st.s) : st \in CoastStarts } : \A st \in CoastStarts : Abs(st.s) <= m
CoastMinDt ==
    CHOOSE d \in { Min(Div(raw * 60 * DTU, TICKS_PER_SEC), 3 * DTU) : raw \in CoastDeltas } :
        \A raw \in CoastDeltas : d <= Min(Div(raw * 60 * DTU, TICKS_PER_SEC), 3 * DTU)

(* C15: with no accelerate or brake input, |speed| never grows from one     *)
(* frame to the next, it is exactly 0 once the frames run add up to the      *)
(* start speed at CAR_FRICTION per unit of dt (here 10 frames of at least   *)
(* dt = 0.5 from at most 0.04), and a speed of 0 stays 0.                    *)
C15_FrictionDecay ==
    /\ [][ frames' = frames + 1 =>
              /\ Abs(speed') <= Abs(speed)
              /\ (speed = 0 => speed' = 0) ]_vars
    /\ [](frames * Div(CAR_FRICTION * CoastMinDt, DTU) >= CoastTopSpeed => speed = 0)
(* the car that started one step from the building bounced off it in its   *)
(* first frame (it is still where it started) and has since come to rest    *)
C15_Witness ==
    /\ frames >= 3 /\ speed = 0 /\ fr.v0 = 0 /\ fr.collided = "none"
    /\ px = 2449 /\ pz = 3000 /\ ~fr.accel /\ ~fr.brake

----------------------------------------------------------------------------
(* C16: from rest, with accelerate held on every frame at dt = 1 and no     *)
(* obstacle hit, the speed after n frames is min(0.035 n, 1.2): it grows by *)
(* CAR_ACCEL per frame, is exactly CAR_MAX_SPEED from the 35th frame on,     *)
(* so within 60 frames, and stays there.                                     *)
C16_AccelSaturates ==
    /\ speed = Min(frames * 3500, 120000)
    /\ frames >= 60 => speed = CAR_MAX_SPEED
    /\ frames > 0 => (fr.collided = "none" /\ fr.accel /\ fr.dt = DTU)
(* the 61st frame, run at the top speed reached before the 60th *)
C16_Witness ==
    /\ frames = 61 /\ speed = CAR_MAX_SPEED /\ fr.accel /\ fr.collided = "none"
    /\ Abs(px) + Abs(pz) > 40 * POS

----------------------------------------------------------------------------
(* C17: the updateMonster call that performs the day-to-night spawn reports *)
(* the distance MONSTER_SPAWN_DIST (200, up to the rounding of sin and cos, *)
(* two parts in a thousand) and isClose = false.                              *)
C17_SpawnDistance ==
    mcall.spawned =>
        /\ Abs(mcall.dist - 200 * POS) <= 2 * ((200 * POS) \div TRIG)
        /\ ~mcall.isClose
(* a spawn for a car away from the origin, on a night that followed a day *)
C17_Witness ==
    /\ mcall.spawned /\ mcall.calls >= 3 /\ mcall.cx = 25000 /\ mcall.cz = -12000
    /\ mcall.dist > 199 * POS

----------------------------------------------------------------------------
(* what an updateMonster call leaves, apart from the agent's position, when *)
(* it was passed isNight = false                                             *)
DayCallInactive ==
    /\ ~mcall'.isClose
    /\ mcall'.dist = 9999 * POS

(* C18 as stated: after every updateMonster call the agent is visible and   *)
(* wasNight is true exactly if the call's isNight was true; a call with      *)
(* isNight false returns isClose = false and dist = 9999 and does not bring  *)
(* the agent nearer to the player.                                           *)
C18_DayNeverApproaches ==
    [][ mcall'.calls = mcall.calls + 1 =>
          /\ monster'.visible <=> mcall'.isNight
          /\ monster'.wasNight <=> mcall'.isNight
          /\ ~mcall'.isNight =>
                /\ DayCallInactive
                /\ SqDist(px - monster'.x, pz - monster'.z)
                      >= SqDist(px - monster.x, pz - monster.z) ]_vars

(* C18 amended: as above, except that a call with isNight false leaves the  *)
(* agent where it was, or, on the first day call after a night, resets it   *)
(* to x = 0, z = 0 (hidden below the origin), which may be nearer to the     *)
(* player; it never applies the chase step.                                  *)
C18_ActiveMirrorsNight ==
    [][ mcall'.calls = mcall.calls + 1 =>
          /\ monster'.visible <=> mcall'.isNight
          /\ monster'.wasNight <=> mcall'.isNight
          /\ ~mcall'.isNight =>
                /\ DayCallInactive
                /\ IF monster.wasNight
                   THEN monster'.x = 0 /\ monster'.z = 0
                   ELSE monster'.x = monster.x /\ monster'.z = monster.z ]_vars
(* the first day call after a night of chasing: the agent has been hidden *)
C18_Witness ==
    /\ mcall.calls >= 3 /\ ~mcall.isNight /\ mcall.wasNight /\ ~mcall.spawned
    /\ ~monster.visible /\ ~monster.wasNight /\ monster.x = 0 /\ monster.z = 0

----------------------------------------------------------------------------
(* placement attempts made so far in each loop, and the steps buildWorld    *)
(* still has to take                                                         *)
BuildingAttempts == IF bw.phase = "buildings" THEN bw.i ELSE BuildingTarget
TreeAttempts ==
    IF bw.phase = "buildings" THEN 0 ELSE IF bw.phase = "trees" THEN bw.i ELSE TreeTarget
StepsLeft ==
    IF bw.phase = "buildings" THEN (BuildingTarget - bw.i) + TreeTarget + 3
    ELSE IF bw.phase = "trees" THEN (TreeTarget - bw.i) + 3
    ELSE IF bw.phase = "lamps" THEN 3
    ELSE IF bw.phase = "fixtures" THEN 2
    ELSE IF bw.phase = "finalize" THEN 1
    ELSE 0

----------------------------------------------------------------------------
----------------------------------------------------------------------------
(* C21: when the merge of some groups fails, the finished scene holds the   *)
(* ground and one mesh for every other non-empty collector and colour (only *)
(* the failed groups are skipped), and the finalize step leaves the          *)
(* collision arrays buildings, trees and lamps as the placement loops made  *)
(* them, whichever merges fail.                                              *)
C21_MergeFailureSkipsOnlyThatGroup ==
    /\ [](bw.phase = "done" =>
            scene.meshes = 1 + Cardinality({ c \in scene.filled : c \notin scene.failed.collectors })
                             + Cardinality({ k \in scene.bcolors : k \notin scene.failed.bcolors })
                             + Cardinality({ k \in scene.lcolors : k \notin scene.failed.lcolors }))
    /\ [][ bw.phase = "finalize" =>
              /\ bw'.phase = "done"
              /\ buildings' = buildings /\ trees' = trees /\ lamps' = lamps ]_vars
(* the merges of the trunks, the ledges and the leaves failed in a world     *)
(* with a building and a tree: their collision records are there, the other *)
(* groups were merged                                                        *)
C21_Witness ==
    /\ bw.phase = "done" /\ "trunk" \in scene.failed.collectors
    /\ Len(buildings) > 0 /\ Len(trees) > 0 /\ Len(lamps) > 50
    /\ scene.lcolors # {} /\ scene.lcolors \subseteq scene.failed.lcolors
    /\ scene.meshes = 1 + Cardinality(scene.filled) - 2 + Cardinality(scene.bcolors)

----------------------------------------------------------------------------
(* C22: a frame flags the first category, in the order buildings, trees,    *)
(* lamps, traffic agents, whose test the candidate position passes, however *)
(* many categories it overlaps; a flagged frame ends with the speed of the  *)
(* longitudinal update multiplied by -0.3 exactly once, an unflagged frame  *)
(* with that speed unchanged.                                                *)
C22_FirstCategoryBouncesOnce ==
    [][ frames' = frames + 1 =>
          LET nx == fr'.nx
              nz == fr'.nz
              b  == HitsBuilding(buildings, nx, nz)
              t  == HitsCircle(trees, nx, nz)
              l  == HitsCircle(lamps, nx, nz)
              n  == checkNPCCollision(npcs, nx, nz)
          IN  /\ b => fr'.collided = "building"
              /\ (~b /\ t) => fr'.collided = "tree"
              /\ (~b /\ ~t /\ l) => fr'.collided = "lamp"
              /\ (~b /\ ~t /\ ~l /\ n) => fr'.collided = "npc"
              /\ (~b /\ ~t /\ ~l /\ ~n) => fr'.collided = "none"
              /\ speed' = IF b \/ t \/ l \/ n THEN Div(fr'.v0 * (-3), 10) ELSE fr'.v0 ]_vars
(* the candidate lay inside the building and inside the circle of the tree: *)
(* the frame flagged the building, reversed the speed once and stayed put   *)
C22_Witness ==
    /\ frames = 1 /\ fr.collided = "building"
    /\ HitsBuilding(buildings, fr.nx, fr.nz) /\ HitsCircle(trees, fr.nx, fr.nz)
    /\ fr.v0 > 0 /\ speed = Div(fr.v0 * (-3), 10) /\ px = fr.x0 /\ pz = fr.z0

----------------------------------------------------------------------------
(* touch flags of the two user interfaces that differ between two records *)
TouchChanged(t1, t2) == { k \in TouchKeys : t1[k] # t2[k] }
LegacyTouchOf(lg) == [gas |-> lg.tA, brake |-> lg.tB, left |-> lg.tL, right |-> lg.tR]

(* C23: a press or a release of one on-screen control changes the intent    *)
(* flag of that control only: no step changes more than one touch flag, so  *)
(* the flags of the controls still held stay set.                            *)
C23_TouchIndependent ==
    [][ /\ Cardinality(TouchChanged(touch, touch')) <= 1
        /\ Cardinality(TouchChanged(LegacyTouchOf(legacy), LegacyTouchOf(legacy'))) <= 1 ]_vars
(* HUD.jsx: gas and steer-left held together, and a frame run with both *)
C23_HudWitness ==
    /\ touch.gas /\ touch.left /\ ~touch.brake /\ ~touch.right
    /\ frames > 0 /\ fr.accel /\ fr.left /\ speed > 0

----------------------------------------------------------------------------
(* C24: in every frame each traffic agent's new position, direction and     *)
(* heading are those its own state and the frame's dt give, whatever the    *)
(* player's inputs, speed and position and whether or not the car ran into  *)
(* the agent; so two runs with the same agents and the same dt sequence     *)
(* have the same agent trajectories.                                         *)
C24_AgentsIgnorePlayer ==
    [][ frames' = frames + 1 =>
          /\ Len(npcs') = Len(npcs)
          /\ \A i \in 1..Len(npcs) : npcs'[i] = StepNPC(npcs[i], fr'.dt) ]_vars
(* the car ran into the agent and bounced; the agent moved on by speed * dt *)
C24_Witness ==
    /\ frames = 1 /\ fr.collided = "npc" /\ speed < 0
    /\ npcs[1].x = OverlapNPC.x + Div(OverlapNPC.speed * fr.dt, DTU)
    /\ npcs[1].x > OverlapNPC.x /\ npcs[1].z = OverlapNPC.z

----------------------------------------------------------------------------
(* C25: a frame whose speed after the accelerate / brake / friction update  *)
(* is 0 leaves the heading as it was, whichever steering intents are set.   *)
C25_NoSteerAtRest ==
    [][ (frames' = frames + 1 /\ fr'.v0 = 0) => angle' = angle ]_vars
(* a frame at rest with steer-left held and dt = 2 *)
C25_Witness ==
    /\ frames > 0 /\ fr.v0 = 0 /\ fr.left /\ ~fr.right /\ fr.dt = 2 * DTU
    /\ ~fr.accel /\ ~fr.brake /\ angle = 0 /\ speed = 0

----------------------------------------------------------------------------
(* the lit phase of the signal *)
PhaseOf(lights) ==
    IF lights.green = 90 THEN "green" ELSE IF lights.yellow = 90 THEN "yellow" ELSE "red"

(* C26: when every frame lasts less than 0.6 s, the phase after a frame is  *)
(* the phase after the frame before it or the next one in the order green,  *)
(* yellow, red, green: green is never directly followed by red, yellow      *)
(* never by green, red never by yellow.                                      *)
C26_PhaseOrder ==
    [][ (frames >= 1 /\ frames' = frames + 1 /\ fr'.sec * 10 < 6 * TICKS_PER_SEC) =>
          \/ PhaseOf(tl') = PhaseOf(tl)
          \/ PhaseOf(tl) = "green"  /\ PhaseOf(tl') = "yellow"
          \/ PhaseOf(tl) = "yellow" /\ PhaseOf(tl') = "red"
          \/ PhaseOf(tl) = "red"    /\ PhaseOf(tl') = "green" ]_vars
(* the signal is green again in the second cycle, reached by the longest    *)
(* frames                                                                    *)
C26_Witness ==
    /\ frames >= 11 /\ tlClock > TL_CYCLE /\ tl.green = 90 /\ fr.sec = 3599
    /\ tlClock = frames * 3599

----------------------------------------------------------------------------
(* the distance between the agent and the car *)
MonsterDistance(m) == Sqrt(SqDist(px - m.x, pz - m.z))

(* calls after which the agent, 0.9 nearer with each call of dt = 1, is     *)
(* within the hit distance                                                   *)
ChaseCallsToClose ==
    ((MONSTER_SPAWN_DIST - MONSTER_HIT_DIST) * DTU) \div (MONSTER_SPEED * 100) + 2

(* C27: in a lasting night with the car standing still and dt in [1, 3],    *)
(* the distance from the agent to the car does not increase from one call   *)
(* to the next (neither the distance a call reports nor the distance after  *)
(* its step), a call that finds the distance at 2 or less leaves the        *)
(* agent's x and z as they are, and the calls come to return isClose =      *)
(* true: the 217th call at the latest does, and every call after it.        *)
C27_ChaseCloses ==
    /\ [][ (mcall'.calls = mcall.calls + 1 /\ mcall.calls >= 1) =>
              /\ mcall'.dist <= mcall.dist
              /\ MonsterDistance(monster') <= MonsterDistance(monster)
              /\ (mcall'.dist <= 2 * POS => monster'.x = monster.x /\ monster'.z = monster.z) ]_vars
    /\ [](mcall.calls >= ChaseCallsToClose => mcall.isClose)
(* the agent has come within 2 units of the car and stands still *)
C27_Witness ==
    /\ mcall.calls > 70 /\ mcall.isClose /\ mcall.dist <= 2 * POS
    /\ MonsterDistance(monster) = mcall.dist /\ px = 3000

----------------------------------------------------------------------------
(* C28: updateMonster sees the night flag as it is when it is called.  When *)
(* the flag is switched from night to day and back to night between two     *)
(* consecutive calls, the second call makes no spawn and no reset: the      *)
(* agent stays visible and active, the call measures the distance from the  *)
(* position the call before left it at and chases on from there.            *)
C28_FlagSeenAtCallOnly ==
    [][ (mcall'.calls = mcall.calls + 1 /\ mcall.calls >= 1 /\ mcall.isNight
            /\ mcall.toggles = 2) =>
          /\ mcall'.isNight /\ ~mcall'.spawned
          /\ monster.visible /\ monster'.visible /\ monster'.wasNight
          /\ mcall'.dist = MonsterDistance(monster)
          /\ MonsterDistance(monster') <= MonsterDistance(monster)
          /\ MonsterDistance(monster') < MonsterDistance(monster) \/ mcall'.dist <= 2 * POS ]_vars
(* a night call, two switches of the flag, and a night call that chased on  *)
C28_Witness ==
    /\ mcall.calls >= 2 /\ mcall.flips = 2 /\ mcall.isNight /\ mcall.wasNight
    /\ ~mcall.spawned /\ monster.visible /\ mcall.dist < MONSTER_SPAWN_DIST
    /\ MonsterDistance(monster) < mcall.dist

----------------------------------------------------------------------------
(* C29: with one and the same intent (accelerate only, brake only or none)  *)
(* in two consecutive frames of dt1 and dt2, dt1 + dt2 <= 3, and no         *)
(* collision in either, the speed after the second frame is the speed one   *)
(* frame of dt1 + dt2 gives from the speed before the first, for every      *)
(* start speed in [-0.4, 1.2].                                               *)
C29_SplitInvariant ==
    [][ (frames >= 1 /\ frames' = frames + 1
            /\ fr.collided = "none" /\ fr'.collided = "none"
            /\ fr'.accel = fr.accel /\ fr'.brake = fr.brake /\ ~(fr.accel /\ fr.brake)
            /\ fr.dt + fr'.dt <= 3 * DTU) =>
          speed' = Longitudinal(fr.s0, fr.accel, fr.brake, fr.dt + fr'.dt) ]_vars
(* friction brought the car to rest within the second of two frames *)
C29_Witness ==
    /\ frames = 2 /\ ~fr.accel /\ ~fr.brake /\ fr.collided = "none"
    /\ fr.dt = 150 /\ fr.s0 = 700 /\ speed = 0

----------------------------------------------------------------------------
(* C30: with dt = 1 on every frame, buildings the only obstacles and one    *)
(* world bound for both, the modular frame step and the legacy frame step   *)
(* leave the same speed, heading, position and lean after every frame, for  *)
(* every sequence of key states.                                             *)
C30_LegacyLockStep ==
    /\ legacy.speed = speed /\ legacy.angle = angle
    /\ legacy.x = px /\ legacy.z = pz /\ legacy.lean = lean
(* both cars have bounced off the building, then steered and leaned *)
C30_Witness ==
    /\ frames = MaxLockFrames /\ legacy.speed = speed /\ legacy.lean = lean
    /\ lean > 0 /\ legacy.angle # 15708 /\ legacy.angle = angle
    /\ fr.left /\ fr.collided = "none" /\ legacy.x = px /\ px < 2400

====
